---- MODULE Spec2Model ----
(***************************************************************************)
(* Model of the be-sharetimewithme HTTP service: the POST /instance,       *)
(* GET /instance/{id} and DELETE /instance/{id}/{username} handlers of     *)
(* setRoutes, the binary-week codec, and the MongoDB collection they       *)
(* share.  Go strings are sequences of one-character strings, so the       *)
(* empty string is <<>>.  Every store round trip is one atomic step.       *)
(***************************************************************************)
EXTENDS Integers, Sequences, FiniteSets, TLC

VARIABLES
    store,      \* the collection: a set of documents, _id unique
    today,      \* the latest day the wall clock was seen to show
    pc,         \* per request: position of its handler
    req,        \* per request: what the client sent
    rv,         \* per request: the decoded Instance (rv in the handler)
    cdate,      \* per request: the handler's local creationDate
    status,     \* per request: HTTP status written (0: none yet)
    body,       \* per request: response body written
    ops,        \* per request: store operations issued so far
    failed,     \* per request: some store operation returned an error
    nfail,      \* store operations that have failed so far
    fresh,      \* per request: no document shared its instanceId on arrival
    cIn,        \* codec run: the week given to the codec
    cTok,       \* codec run: the decimal token stored for it
    cOut,       \* codec run: what decoding the token returned
    cpc         \* codec run: position

vars == <<store, today, nfail, pc, req, rv, cdate, status, body, ops,
          failed, fresh, cIn, cTok, cOut, cpc>>

reqVars == <<pc, req, rv, cdate, status, body, ops, failed, fresh>>
codecVars == <<cIn, cTok, cOut, cpc>>

----------------------------------------------------------------------------
(* Bounds *)

MaxReq == 3
MaxDay == 2
MaxFail == 1

Reqs == 1..MaxReq

----------------------------------------------------------------------------
(* Strings *)

DecDigits == <<"0","1","2","3","4","5","6","7","8","9">>

\* the value of a digit character in strconv's alphabet; 99 for a byte that
\* is no digit in any base
DigitVal(c) ==
    CASE c = "0" -> 0 [] c = "1" -> 1 [] c = "2" -> 2 [] c = "3" -> 3
      [] c = "4" -> 4 [] c = "5" -> 5 [] c = "6" -> 6 [] c = "7" -> 7
      [] c = "8" -> 8 [] c = "9" -> 9 [] c = "a" -> 10 [] c = "b" -> 11
      [] OTHER -> 99

RECURSIVE Pow(_, _)
Pow(b, n) == IF n = 0 THEN 1 ELSE b * Pow(b, n - 1)

\* strconv.ParseUint(s, base, bitSize): [val, err], err one of
\* "nil", "syntax", "range"
RECURSIVE ParseUintFrom(_, _, _, _, _)
ParseUintFrom(s, i, base, maxVal, acc) ==
    IF i > Len(s) THEN [val |-> acc, err |-> "nil"]
    ELSE IF DigitVal(s[i]) >= base THEN [val |-> 0, err |-> "syntax"]
    ELSE IF acc * base + DigitVal(s[i]) > maxVal
         THEN [val |-> maxVal, err |-> "range"]
    ELSE ParseUintFrom(s, i + 1, base, maxVal, acc * base + DigitVal(s[i]))

ParseUint(s, base, bitSize) ==
    IF s = <<>> THEN [val |-> 0, err |-> "syntax"]
    ELSE ParseUintFrom(s, 1, base, Pow(2, bitSize) - 1, 0)

\* strconv.ParseInt(s, base, bitSize)
ParseInt(s, base, bitSize) ==
    IF s = <<>> THEN [val |-> 0, err |-> "syntax"]
    ELSE LET neg    == s[1] = "-"
             rest   == IF s[1] = "+" \/ s[1] = "-" THEN Tail(s) ELSE s
             un     == ParseUint(rest, base, bitSize)
             cutoff == Pow(2, bitSize - 1)
         IN  IF un.err = "syntax" THEN [val |-> 0, err |-> "syntax"]
             ELSE IF ~neg /\ un.val >= cutoff
                  THEN [val |-> cutoff - 1, err |-> "range"]
             ELSE IF neg /\ un.val > cutoff
                  THEN [val |-> 0 - cutoff, err |-> "range"]
             ELSE [val |-> IF neg THEN 0 - un.val ELSE un.val, err |-> "nil"]

\* the digits of n >= 0 in the given base, most significant first
RECURSIVE Digits(_, _)
Digits(n, base) ==
    IF n < base THEN <<DecDigits[n + 1]>>
    ELSE Append(Digits(n \div base, base), DecDigits[(n % base) + 1])

\* strconv.FormatInt(n, 10)
FormatInt(n) == IF n < 0 THEN <<"-">> \o Digits(0 - n, 10) ELSE Digits(n, 10)

RECURSIVE ZeroPad(_, _)
ZeroPad(s, width) == IF Len(s) >= width THEN s ELSE ZeroPad(<<"0">> \o s, width)

\* as Sprintf07b, with the verb %b: no zero padding
SprintfB(num) ==
    IF num < 0 THEN <<"-">> \o Digits(0 - num, 2) ELSE Digits(num, 2)

\* fmt.Sprintf("%07b", num): the sign counts towards the width of 7
Sprintf07b(num) ==
    IF num < 0 THEN <<"-">> \o ZeroPad(Digits(0 - num, 2), 6)
    ELSE ZeroPad(Digits(num, 2), 7)

\* strings.Join(elems, "|")
RECURSIVE Join(_)
Join(elems) ==
    IF elems = <<>> THEN <<>>
    ELSE IF Len(elems) = 1 THEN elems[1]
    ELSE elems[1] \o <<"|">> \o Join(Tail(elems))

\* strings.Split(s, "|"): always at least one element
RECURSIVE SplitFrom(_, _, _)
SplitFrom(s, i, cur) ==
    IF i > Len(s) THEN <<cur>>
    ELSE IF s[i] = "|" THEN <<cur>> \o SplitFrom(s, i + 1, <<>>)
    ELSE SplitFrom(s, i + 1, Append(cur, s[i]))

Split(s) == SplitFrom(s, 1, <<>>)

\* time.Now().Format("2006/01/02") on day d of the modelled month
Format(d) == <<"2","0","2","4","/","0","1","/">> \o ZeroPad(Digits(d, 10), 2)

----------------------------------------------------------------------------
(* Codec *)

IsBinaryString(s) == \A i \in 1..Len(s) : ~(s[i] # "0" /\ s[i] # "1")

\* as convertBinaryToDecimal, with a bit size of 7
convertBinaryToDecimal7(week) == ParseInt(week, 2, 7)

convertBinaryToDecimal(week) == ParseInt(week, 2, 8)

\* as DecodeToken, parsing the token in base 2 instead of base 10
DecodeTokenBase2(week) ==
    LET p == ParseInt(week, 2, 8)
    IN  IF p.err = "nil" THEN Sprintf07b(p.val) ELSE week

\* one pass of the loop of convertDecimalWeekToBinary
DecodeToken(week) ==
    LET p == ParseInt(week, 10, 8)
    IN  IF p.err = "nil" THEN Sprintf07b(p.val) ELSE week

convertDecimalWeekToBinary(binaryWeeks) ==
    LET weeks == Split(binaryWeeks)
    IN  [i \in 1..Len(weeks) |-> DecodeToken(weeks[i])]

----------------------------------------------------------------------------
(* Inputs *)

I1 == <<"i","1">>
UserA == <<"a">>
UserB == <<"b">>

W5   == <<"0","0","0","0","1","0","1">>
W0   == <<"0","0","0","0","0","0","0">>
W127 == <<"1","1","1","1","1","1","1">>
WShort  == <<"1","0","1">>
WNonBin == <<"0","0","0","0","0","0","2">>

Usernames == {UserA, UserB}
WeekLists == {<<W5>>, <<W0, W127>>}

\* uuid.New().String(): a token no other request gets and no client knows
\* beforehand
Uuid(r) == <<"u", DecDigits[r + 1]>>

\* instance ids a client can name: a well-known one and those the service
\* has handed out in a 200 response
KnownIds ==
    {I1} \cup {rv[o].instanceId : o \in {x \in Reqs : req[x].method = "POST"
                                                   /\ status[x] = 200}}

NoReq == [method |-> "NONE", decodeOk |-> TRUE, instanceId |-> <<>>,
          username |-> <<>>, binaryWeeks |-> <<>>]

PostReq(decodeOk, id, username, weeks) ==
    [method |-> "POST", decodeOk |-> decodeOk, instanceId |-> id,
     username |-> username, binaryWeeks |-> weeks]

\* request bodies that pass every check of the handler
GoodPosts ==
    {PostReq(TRUE, I1, u, w) : u \in Usernames, w \in WeekLists}
    \cup {PostReq(TRUE, <<>>, UserA, w) : w \in WeekLists}

\* request bodies the handler rejects: not JSON, no username, no weeks, a
\* bad week after a good one, a bad week first
BadPosts ==
    {PostReq(FALSE, <<>>, <<>>, <<>>),
     PostReq(TRUE, I1, <<>>, <<W5>>),
     PostReq(TRUE, I1, UserA, <<>>),
     PostReq(TRUE, I1, UserA, <<W5, WShort>>),
     PostReq(TRUE, <<>>, UserB, <<WNonBin>>)}
NoRv == [instanceId |-> <<>>, username |-> <<>>, binaryWeeks |-> <<>>]
NoBody == [kind |-> "none", val |-> <<>>]

Text(msg) == [kind |-> "text", val |-> msg]

----------------------------------------------------------------------------
(* Store queries *)

ByPair(id, username) ==
    {d \in store : d.instanceId = id /\ d.username = username}

ById(id) == {d \in store : d.instanceId = id}

\* every order in which a query can yield the documents of a set
Orders(S) ==
    {q \in [1..Cardinality(S) -> S] : \A i, j \in 1..Cardinality(S) :
                                         q[i] = q[j] => i = j}

----------------------------------------------------------------------------
(* Handler steps *)

\* requests are numbered in the order they arrive
Arrives(r) == pc[r] = "idle" /\ (IF r = 1 THEN TRUE ELSE pc[r - 1] # "idle")

Quiet == \A o \in Reqs : pc[o] \in {"idle", "done"}

Respond(r, code, b) ==
    /\ pc' = [pc EXCEPT ![r] = "done"]
    /\ status' = [status EXCEPT ![r] = code]
    /\ body' = [body EXCEPT ![r] = b]

\* as Issue, the call repeated once when it returns an error
IssueRetrying(r, op, ok) ==
    /\ ok \/ nfail < MaxFail
    /\ nfail' = IF ok THEN nfail ELSE nfail + 1
    /\ ops' = [ops EXCEPT ![r] = IF ok THEN Append(@, op)
                                      ELSE Append(Append(@, op), op)]
    /\ failed' = [failed EXCEPT ![r] = @ \/ ~ok]

\* a store call and whether it returns without error; the store errs at
\* most MaxFail times
Issue(r, op, ok) ==
    /\ ok \/ nfail < MaxFail
    /\ nfail' = IF ok THEN nfail ELSE nfail + 1
    /\ ops' = [ops EXCEPT ![r] = Append(@, op)]
    /\ failed' = [failed EXCEPT ![r] = @ \/ ~ok]

\* as ValidWeek, without the IsBinaryString test
ValidWeekLenOnly(week) == ~(Len(week) # 7)

\* the format check of the week loop
ValidWeek(week) == ~(~IsBinaryString(week) \/ Len(week) # 7)

\* the loop over rv.BinaryWeeks: checks and encodes week i in place
RECURSIVE WeekLoop(_, _)
WeekLoop(weeks, i) ==
    IF i > Len(weeks) THEN [outcome |-> "ok", weeks |-> weeks]
    ELSE IF ~ValidWeek(weeks[i]) THEN [outcome |-> "invalid", weeks |-> weeks]
    ELSE LET d == convertBinaryToDecimal(weeks[i])
         IN  IF d.err # "nil" THEN [outcome |-> "convfail", weeks |-> weeks]
             ELSE WeekLoop([weeks EXCEPT ![i] = FormatInt(d.val)], i + 1)

\* what time.Now() can show: the day last seen or, midnight having passed,
\* a later one
Clock == today..MaxDay

\* as IsDuplicate, off by one
IsDuplicateAboveOne(count) == count > 1

\* the duplicate check on the result of CountDocuments
IsDuplicate(count) == count > 0

\* POST /instance up to and including the first store call: decode,
\* required fields, id generation, week loop, CountDocuments, the duplicate
\* check and time.Now().Format
PostStart(r) ==
    /\ Arrives(r)
    /\ \E b \in GoodPosts \cup BadPosts, ok \in BOOLEAN :
         LET rid  == IF b.instanceId = <<>> THEN Uuid(r) ELSE b.instanceId
             loop == WeekLoop(b.binaryWeeks, 1)
             Reject(code, msg) ==
                 /\ ok
                 /\ Respond(r, code, Text(msg))
                 /\ UNCHANGED <<rv, cdate, ops, failed, nfail, today>>
         IN
         /\ req' = [req EXCEPT ![r] = b]
         /\ fresh' = [fresh EXCEPT ![r] = ById(rid) = {}]
         /\ IF ~b.decodeOk
              THEN Reject(400, "decode error")
            ELSE IF b.username = <<>> \/ Len(b.binaryWeeks) = 0
              THEN Reject(400, "Missing required fields")
            ELSE IF loop.outcome = "invalid"
              THEN Reject(400, "Invalid data :(")
            ELSE IF loop.outcome = "convfail"
              THEN Reject(500,
                     "There was an issue during the conversion process :(")
            ELSE /\ rv' = [rv EXCEPT ![r] = [instanceId |-> rid,
                                             username |-> b.username,
                                             binaryWeeks |-> loop.weeks]]
                 /\ Issue(r, "CountDocuments", ok)
                 /\ IF ~ok
                      THEN Respond(r, 500, Text("store error"))
                           /\ UNCHANGED <<cdate, today>>
                    ELSE IF IsDuplicate(Cardinality(ByPair(rid, b.username)))
                      THEN Respond(r, 400,
                             Text("Username already exists for this instance"))
                           /\ UNCHANGED <<cdate, today>>
                    ELSE /\ \E now \in Clock :
                              /\ today' = now
                              /\ cdate' = [cdate EXCEPT ![r] = Format(now)]
                         /\ pc' = [pc EXCEPT ![r] =
                                     IF rid # <<>> THEN "lookup" ELSE "insert"]
                         /\ UNCHANGED <<status, body>>
    /\ UNCHANGED <<store, codecVars>>

\* what FindOne(instanceId = id).Decode can return: a store error, "no
\* documents", or any one matching document
FindOneResults(id) ==
    {[ok |-> FALSE, found |-> FALSE, creationDate |-> <<>>]}
    \cup (IF ById(id) = {}
          THEN {[ok |-> TRUE, found |-> FALSE, creationDate |-> <<>>]}
          ELSE {[ok |-> TRUE, found |-> TRUE, creationDate |-> d.creationDate]
                  : d \in ById(id)})

\* as getCreationDateByInstanceId, returning the current date instead of the
\* date found
getCreationDateNow(res) == Format(today)

getCreationDateByInstanceId(res) ==
    IF ~(res.ok /\ res.found) THEN <<>> ELSE res.creationDate

PostLookup(r) ==
    /\ pc[r] = "lookup"
    /\ \E res \in FindOneResults(rv[r].instanceId) :
         /\ Issue(r, "FindOne", res.ok)
         /\ cdate' = [cdate EXCEPT ![r] = getCreationDateByInstanceId(res)]
    /\ pc' = [pc EXCEPT ![r] = "insert"]
    /\ UNCHANGED <<store, today, req, rv, status, body, fresh, codecVars>>

NewDoc(r) ==
    [_id |-> r, instanceId |-> rv[r].instanceId, username |-> rv[r].username,
     binaryWeeks |-> Join(rv[r].binaryWeeks), creationDate |-> cdate[r]]

PostInsert(r) ==
    /\ pc[r] = "insert"
    /\ \E ok \in BOOLEAN :
         /\ Issue(r, "InsertOne", ok)
         /\ IF ~ok
              THEN Respond(r, 500, Text("store error")) /\ UNCHANGED store
              ELSE /\ store' = store \cup {NewDoc(r)}
                   /\ Respond(r, 200, [kind |-> "object",
                                       val |-> rv[r].instanceId])
    /\ UNCHANGED <<today, req, rv, cdate, fresh, codecVars>>

ToInstance(data) ==
    [instanceId |-> data.instanceId, username |-> data.username,
     binaryWeeks |-> convertDecimalWeekToBinary(data.binaryWeeks),
     creationDate |-> data.creationDate]

\* var instances []Instance followed by one append per record: the slice
\* stays nil when there is no record
Instances(records) ==
    [isNil |-> Len(records) = 0,
     elems |-> [i \in 1..Len(records) |-> ToInstance(records[i])]]

\* json.NewEncoder(w).Encode of a slice: a nil slice encodes as null
EncodeSlice(s) ==
    IF s.isNil THEN [kind |-> "null", val |-> <<>>]
               ELSE [kind |-> "array", val |-> s.elems]

\* GET /instance/{id}: collection.Find, cursor.All, the conversion loop and
\* the response; the store is read once
Get(r) ==
    /\ Arrives(r)
    /\ \E id \in KnownIds, findOk \in BOOLEAN, allOk \in BOOLEAN :
         /\ req' = [req EXCEPT ![r] = [NoReq EXCEPT !.method = "GET",
                                                    !.instanceId = id]]
         /\ fresh' = [fresh EXCEPT ![r] = ById(id) = {}]
         /\ IF ~findOk
              THEN /\ allOk
                   /\ Issue(r, "Find", FALSE)
                   /\ Respond(r, 400, Text("store error"))
            ELSE IF ~allOk
              THEN /\ nfail < MaxFail
                   /\ nfail' = nfail + 1
                   /\ ops' = [ops EXCEPT ![r] = <<"Find", "All">>]
                   /\ failed' = [failed EXCEPT ![r] = TRUE]
                   /\ Respond(r, 500, Text("store error"))
            ELSE /\ ops' = [ops EXCEPT ![r] = <<"Find", "All">>]
                 /\ UNCHANGED <<failed, nfail>>
                 /\ \E records \in Orders(ById(id)) :
                      Respond(r, 200, EncodeSlice(Instances(records)))
    /\ UNCHANGED <<store, today, rv, cdate, codecVars>>

\* as DeleteFilter, without the username key
DeleteFilterIdOnly(id, username) == ById(id)

\* as DeleteFilter, without the instanceId key
DeleteFilterUserOnly(id, username) == {d \in store : d.username = username}

\* the documents matching bson.M{"instanceId": id, "username": username}
DeleteFilter(id, username) == ByPair(id, username)

\* DELETE /instance/{id}/{username}: collection.DeleteOne and the response
Delete(r) ==
    /\ Arrives(r)
    /\ \E id \in KnownIds, username \in Usernames, ok \in BOOLEAN :
         /\ req' = [req EXCEPT ![r] = [NoReq EXCEPT !.method = "DELETE",
                                                    !.instanceId = id,
                                                    !.username = username]]
         /\ fresh' = [fresh EXCEPT ![r] = ById(id) = {}]
         /\ Issue(r, "DeleteOne", ok)
         /\ IF ~ok
              THEN Respond(r, 500, Text("store error")) /\ UNCHANGED store
            ELSE IF DeleteFilter(id, username) = {}
              THEN Respond(r, 404, Text("No records found to delete"))
                   /\ UNCHANGED store
            ELSE /\ \E d \in DeleteFilter(id, username) : store' = store \ {d}
                 /\ Respond(r, 200, [kind |-> "object",
                                     val |-> "Record deleted successfully"])
    /\ UNCHANGED <<today, rv, cdate, codecVars>>

\* the codec on one week: convertBinaryToDecimal and strconv.FormatInt, as
\* in the week loop
CodecEncode ==
    /\ cpc = "start"
    /\ LET d == convertBinaryToDecimal(cIn)
       IN  IF d.err # "nil"
             THEN cpc' = "failed" /\ UNCHANGED cTok
             ELSE cpc' = "encoded" /\ cTok' = FormatInt(d.val)
    /\ UNCHANGED <<store, today, nfail, reqVars, cIn, cOut>>

\* convertDecimalWeekToBinary on the stored token
CodecDecode ==
    /\ cpc = "encoded"
    /\ cOut' = convertDecimalWeekToBinary(cTok)
    /\ cpc' = "decoded"
    /\ UNCHANGED <<store, today, nfail, reqVars, cIn, cTok>>

----------------------------------------------------------------------------
(* Specifications *)

InitReqs ==
    /\ store = {}
    /\ today = 1
    /\ nfail = 0
    /\ pc = [r \in Reqs |-> "idle"]
    /\ req = [r \in Reqs |-> NoReq]
    /\ rv = [r \in Reqs |-> NoRv]
    /\ cdate = [r \in Reqs |-> <<>>]
    /\ status = [r \in Reqs |-> 0]
    /\ body = [r \in Reqs |-> NoBody]
    /\ ops = [r \in Reqs |-> <<>>]
    /\ failed = [r \in Reqs |-> FALSE]
    /\ fresh = [r \in Reqs |-> FALSE]

Init ==
    /\ InitReqs
    /\ cIn = <<>> /\ cTok = <<>> /\ cOut = <<>> /\ cpc = "off"

\* requests handled concurrently, one goroutine each
Next ==
    \/ \E r \in Reqs : PostStart(r)
    \/ \E r \in Reqs : PostLookup(r)
    \/ \E r \in Reqs : PostInsert(r)
    \/ \E r \in Reqs : Get(r)
    \/ \E r \in Reqs : Delete(r)

Spec == Init /\ [][Next]_vars

\* requests handled one after another: a request arrives only when every
\* earlier one has responded
NextSeq ==
    \/ \E r \in Reqs : Quiet /\ PostStart(r)
    \/ \E r \in Reqs : PostLookup(r)
    \/ \E r \in Reqs : PostInsert(r)
    \/ \E r \in Reqs : Quiet /\ Get(r)
    \/ \E r \in Reqs : Quiet /\ Delete(r)

SpecSeq == Init /\ [][NextSeq]_vars

\* the codec alone, on every 7-character string over 0 and 1 and on a few
\* strings of another shape
CodecInputs ==
    [1..7 -> {"0", "1"}]
    \cup {<<>>, WShort, WNonBin, <<"+">> \o W5, <<"1">> \o W0, <<"0">> \o W127}

InitCodec ==
    /\ InitReqs
    /\ cIn \in CodecInputs
    /\ cTok = <<>> /\ cOut = <<>> /\ cpc = "start"

NextCodec == CodecEncode \/ CodecDecode

SpecCodec == InitCodec /\ [][NextCodec]_vars

----------------------------------------------------------------------------
(* Properties *)

\* a week as the interface defines it: 7 characters, each 0 or 1
Well7(w) == Len(w) = 7 /\ \A i \in 1..7 : w[i] \in {"0", "1"}

\* a create request the validator has to reject
Invalid(b) ==
    \/ b.username = <<>>
    \/ b.binaryWeeks = <<>>
    \/ \E i \in 1..Len(b.binaryWeeks) : ~Well7(b.binaryWeeks[i])

GoodPost(r) == req[r].method = "POST" /\ req[r].decodeOk /\ ~Invalid(req[r])

\* request d is a delete that removed a record of the pair of create p
DeletedPairOf(d, p) ==
    /\ req[d].method = "DELETE"
    /\ status[d] = 200
    /\ req[d].instanceId = rv[p].instanceId
    /\ req[d].username = rv[p].username

SamePair(p, q) ==
    rv[p].instanceId = rv[q].instanceId /\ rv[p].username = rv[q].username

\* C1: in every reachable state no two stored records share the same
\* (instanceId, username) pair, with create and delete requests running
\* concurrently and every store round trip a step of its own.
C1_UniquePair ==
    \A d1, d2 \in store :
        (d1.instanceId = d2.instanceId /\ d1.username = d2.username)
            => d1 = d2

\* C2: of two valid creates for the same pair, the second arriving after the
\* first has responded 200 and with no delete of the pair in between, the
\* second (its store calls succeeding) responds 400 "username already
\* exists", and as long as no delete of the pair follows, the store holds
\* exactly one record for the pair: the one the first request wrote.
C2_SecondCreateRejected ==
    \A p, q \in Reqs :
        ( /\ p < q
          /\ GoodPost(p) /\ status[p] = 200
          /\ GoodPost(q) /\ pc[q] = "done" /\ ~failed[q]
          /\ SamePair(p, q)
          /\ ~\E d \in Reqs : p < d /\ d < q /\ DeletedPairOf(d, p) )
        => /\ status[q] = 400
           /\ body[q] = Text("Username already exists for this instance")
           /\ (~\E d \in Reqs : q < d /\ DeletedPairOf(d, p))
                => ByPair(rv[p].instanceId, rv[p].username) = {NewDoc(p)}

C2_Witness ==
    \E p, q \in Reqs :
        /\ p < q /\ GoodPost(p) /\ GoodPost(q) /\ SamePair(p, q)
        /\ status[p] = 200 /\ status[q] = 400
        /\ req[p].binaryWeeks # req[q].binaryWeeks
        /\ ByPair(rv[p].instanceId, rv[p].username) = {NewDoc(p)}

\* C3: when a create succeeds and no stored record shared its instanceId
\* when the request arrived (requests handled one after another), the
\* record it inserts carries the current date, the one time.Now() showed to
\* the request, as creationDate.
C3_FirstRecordDatedToday ==
    [][\A r \in Reqs :
         (pc[r] = "insert" /\ status'[r] = 200 /\ fresh[r])
            => \A d \in store' \ store : d.creationDate = Format(today)]_vars

\* C4: in every reachable state all stored records sharing an instanceId
\* have the same creationDate.
C4_SameCreationDate ==
    \A d1, d2 \in store :
        d1.instanceId = d2.instanceId => d1.creationDate = d2.creationDate

C4_Witness ==
    \E d1, d2 \in store :
        /\ d1.instanceId = d2.instanceId
        /\ d1.username # d2.username
        /\ today = 2

\* C5: a fetch whose store calls succeed responds 200 with exactly one
\* entry per stored record of the id asked for and none of another id;
\* each entry has the username and, element by element, the binaryWeeks
\* submitted in the create that wrote the record.
C5_FetchReturnsStored ==
    [][\A r \in Reqs :
         (pc[r] = "idle" /\ req'[r].method = "GET" /\ ~failed'[r])
            => /\ status'[r] = 200
               /\ LET id   == req'[r].instanceId
                      docs == ById(id)
                      es   == body'[r].val
                  IN  /\ Len(es) = Cardinality(docs)
                      /\ \E f \in [1..Len(es) -> docs] :
                           /\ \A i, j \in 1..Len(es) : f[i] = f[j] => i = j
                           /\ \A i \in 1..Len(es) :
                                /\ es[i].instanceId = id
                                /\ es[i].username = req[f[i]._id].username
                                /\ es[i].binaryWeeks
                                     = req[f[i]._id].binaryWeeks]_vars

C5_Witness ==
    \E r \in Reqs :
        /\ req[r].method = "GET" /\ status[r] = 200
        /\ body[r].kind = "array"
        /\ Len(body[r].val) = 2
        /\ \E i \in 1..2 : body[r].val[i].binaryWeeks = <<W0, W127>>

\* C6: for each of the 128 strings s of length 7 over 0 and 1, encoding s,
\* formatting the value as a decimal token and decoding the token gives s
\* back, leading zeros included.
C6_RoundTrip ==
    Well7(cIn) => /\ cpc # "failed"
                  /\ cpc = "decoded" => cOut = <<cIn>>

C6_Witness == cpc = "decoded" /\ cIn = W0 /\ cTok = <<"0">> /\ cOut = <<W0>>

\* C7: a create whose username is empty, whose binaryWeeks is empty or
\* which has, at any position, a week that is not 7 characters over 0 and 1
\* responds 400 without having issued any store operation, and the store is
\* as it was.
C7_InvalidRejectedFirst ==
    [][\A r \in Reqs :
         (pc[r] = "idle" /\ req'[r].method = "POST" /\ Invalid(req'[r]))
            => /\ pc'[r] = "done"
               /\ status'[r] = 400
               /\ ops'[r] = <<>>
               /\ store' = store]_vars

C7_Witness ==
    \E r \in Reqs :
        /\ req[r].method = "POST"
        /\ req[r].binaryWeeks = <<W5, WShort>>
        /\ status[r] = 400 /\ ops[r] = <<>>
        /\ store # {}

\* C8: a delete whose store call succeeds responds 404 and leaves the store
\* as it was when no record has its (instanceId, username) pair; otherwise
\* it responds 200 and removes exactly one record of that pair and nothing
\* else.
C8_DeleteExactlyOne ==
    [][\A r \in Reqs :
         (pc[r] = "idle" /\ req'[r].method = "DELETE" /\ ~failed'[r])
            => LET hit == ByPair(req'[r].instanceId, req'[r].username)
               IN  IF hit = {}
                     THEN status'[r] = 404 /\ store' = store
                     ELSE /\ status'[r] = 200
                          /\ \E d \in hit : store' = store \ {d}]_vars

C8_Witness ==
    \E r \in Reqs :
        /\ req[r].method = "DELETE" /\ status[r] = 200
        /\ \E d \in store : /\ d.instanceId = req[r].instanceId
                            /\ d.username # req[r].username

\* C9: a fetch for an id no stored record has responds 200 with an empty
\* JSON list as body, not null.
C9_EmptyListBody ==
    \A r \in Reqs :
        (req[r].method = "GET" /\ pc[r] = "done" /\ fresh[r] /\ ~failed[r])
            => /\ status[r] = 200
               /\ body[r].kind = "array"
               /\ body[r].val = <<>>

\* C10: when a store operation issued for a create fails (the count, the
\* creation-date lookup or the insert), the request responds 500 and
\* inserts no record.
C10_StoreFailureIs500 ==
    \A r \in Reqs :
        (req[r].method = "POST" /\ failed[r] /\ pc[r] = "done")
            => /\ status[r] = 500
               /\ ~\E d \in store : d._id = r

\* the store operations that write
Mutating == {"InsertOne", "DeleteOne"}

Times(s, S) == Cardinality({i \in 1..Len(s) : s[i] \in S})

\* C11: every request issues at most one mutating store operation, an
\* insert for a create, a delete for a delete, none for a fetch, and issues
\* no store operation a second time, whether or not it failed.
C11_OneMutation ==
    \A r \in Reqs :
        /\ Times(ops[r], Mutating) <= 1
        /\ req[r].method = "POST" => Times(ops[r], {"DeleteOne"}) = 0
        /\ req[r].method = "DELETE" => Times(ops[r], {"InsertOne"}) = 0
        /\ req[r].method = "GET" => Times(ops[r], Mutating) = 0
        /\ \A i, j \in 1..Len(ops[r]) : ops[r][i] = ops[r][j] => i = j

C11_Witness ==
    \E r \in Reqs :
        /\ req[r].method = "POST" /\ status[r] = 500 /\ failed[r]
        /\ ops[r] = <<"CountDocuments", "FindOne", "InsertOne">>
        /\ ~\E d \in store : d._id = r

\* C12: convertBinaryToDecimal fails for every string that is not 7
\* characters over 0 and 1: every string of another length and every string
\* with another character.
C12_EncodeRejectsMalformed ==
    ~Well7(cIn) => cpc \notin {"encoded", "decoded"}

\* strings the week loop can meet: the codec inputs and every string of 6
\* or 8 characters over 0 and 1
WeekCandidates ==
    CodecInputs \cup [1..6 -> {"0", "1"}] \cup [1..8 -> {"0", "1"}]

\* every week the format check lets through encodes without error, to a
\* value in 0..127
CheckedWeeksEncode ==
    \A w \in WeekCandidates :
        ValidWeek(w) => /\ convertBinaryToDecimal(w).err = "nil"
                        /\ convertBinaryToDecimal(w).val \in 0..127

RECURSIVE DecimalValue(_)
DecimalValue(t) ==
    IF t = <<>> THEN 0
    ELSE 10 * DecimalValue(SubSeq(t, 1, Len(t) - 1)) + DigitVal(t[Len(t)])

\* a decimal numeral of a number in 0..127
IsToken(t) ==
    /\ Len(t) >= 1
    /\ \A i \in 1..Len(t) : DigitVal(t[i]) < 10
    /\ (Len(t) > 1 => t[1] # "0")
    /\ DecimalValue(t) \in 0..127

\* C13: every week that passes the format check of the week loop encodes
\* without error to a value in 0..127, no create responds with the 500 of
\* the conversion failure, and the binaryWeeks of every stored record is a
\* non-empty sequence, joined by |, of decimal tokens in 0..127.
C13_EncodedInRange ==
    /\ CheckedWeeksEncode
    /\ \A r \in Reqs :
         ~( /\ status[r] = 500
            /\ body[r].kind = "text"
            /\ body[r].val
                 = "There was an issue during the conversion process :(" )
    /\ \A d \in store :
         /\ d.binaryWeeks # <<>>
         /\ \A i \in 1..Len(Split(d.binaryWeeks)) :
              IsToken(Split(d.binaryWeeks)[i])

C13_Witness ==
    \E d \in store : d.binaryWeeks = <<"0", "|", "1", "2", "7">>

\* C14: a stored record stays in the store, its username, binaryWeeks and
\* creationDate as inserted, through every step of every request, except
\* the step of a delete for exactly its (instanceId, username) pair that
\* responds 200.
C14_RecordKeptUntilDeleted ==
    [][\A d \in store :
         \/ d \in store'
         \/ \E r \in Reqs :
              /\ pc[r] = "idle"
              /\ req'[r].method = "DELETE"
              /\ status'[r] = 200
              /\ req'[r].instanceId = d.instanceId
              /\ req'[r].username = d.username]_vars

C14_Witness ==
    \E d \in store : \E q, x \in Reqs :
        /\ d._id < q /\ d._id < x
        /\ req[q].method = "POST" /\ status[q] = 400
        /\ rv[q].instanceId = d.instanceId /\ rv[q].username = d.username
        /\ Join(rv[q].binaryWeeks) # d.binaryWeeks
        /\ req[x].method = "DELETE" /\ status[x] = 404
        /\ req[x].instanceId = d.instanceId /\ req[x].username # d.username

\* C15: with creates and deletes interleaving in any way, right after a
\* delete of a pair responds 200 no stored record has that pair, so that a
\* fetch of the id then returns no entry for the username.
C15_DeletedPairGone ==
    [][\A r \in Reqs :
         (pc[r] = "idle" /\ req'[r].method = "DELETE" /\ status'[r] = 200)
            => ~\E d \in store' : /\ d.instanceId = req'[r].instanceId
                                  /\ d.username = req'[r].username]_vars

====
